---- MODULE Spec2Model ----
(***************************************************************************)
(* Model of index.js: the eBay token cache (getAppToken), the /search      *)
(* handler that proxies the Browse API, buildAffiliateUrl, and the /go     *)
(* handler that redirects to an affiliate link.                            *)
(*                                                                         *)
(* Every request handler runs on the single JavaScript thread: the code    *)
(* between two awaits is one atomic action, and handlers interleave only   *)
(* at their awaits.  JavaScript values are tagged records, so that         *)
(* undefined, null, NaN, numbers and strings stay distinct; strings that   *)
(* the code inspects are sequences of one-character strings.               *)
(***************************************************************************)
EXTENDS Integers, Sequences, FiniteSets, TLC

(***************************************************************************)
(* Bounds of the model.                                                    *)
(***************************************************************************)
NumReqs == 2        \* request slots handled concurrently (slots are reused)
TickMs == 2500      \* the clock advances in steps of TickMs milliseconds
MaxNow == 5000      \* the clock stops advancing beyond MaxNow

(***************************************************************************)
(* Constants of the program.                                               *)
(***************************************************************************)
SAFETY_MARGIN_MS == 5000
MS_PER_SECOND == 1000
DEFAULT_LIMIT == <<"2", "5">>
MAX_LIMIT == 100
STATUS_BAD_REQUEST == 400
STATUS_SERVER_ERROR == 500
STATUS_OK == 200
STATUS_FOUND == 302

(***************************************************************************)
(* State.                                                                  *)
(***************************************************************************)
VARIABLES
  now,            \* Date.now(), milliseconds
  cached,         \* the module-level token cache
  pc,             \* slot -> where its /search handler stands
  input,          \* slot -> req.query of the request
  call,           \* slot -> the handler's getAppToken invocation
  authReply,      \* slot -> the authorization endpoint's reply, in flight
  browse,         \* slot -> the Browse API request the handler sent
  outcome,        \* slot -> what ended the try block: the reply `r`, or `err`
  res,            \* slot -> the HTTP response the handler sent
  written,        \* history: some refresh has written the cache
  lastProcessed,  \* history: slot whose 2xx authorization reply was processed last
  go,             \* the last /go request: req.query.url and the response sent
  aff             \* buildAffiliateUrl called on its own: arguments and result

vars ==
  <<now, cached, pc, input, call, authReply, browse, outcome, res, written,
    lastProcessed, go, aff>>

(***************************************************************************)
(* JavaScript values.                                                      *)
(***************************************************************************)
Undefined == [t |-> "undefined"]
Null == [t |-> "null"]
NaN == [t |-> "NaN"]
Num(n) == [t |-> "number", v |-> n]
Str(s) == [t |-> "string", v |-> s]
\* an access token string: opaque to the proxy; the authorization endpoint
\* knows when it issued it (iat) and when it expires (exp)
AccessToken(iat, exp) == [t |-> "token", iat |-> iat, exp |-> exp]

\* JavaScript truthiness, as used by `cached.token &&`, `!q`, `x || y`
Truthy(x) ==
  CASE x.t = "undefined" -> FALSE
    [] x.t = "null" -> FALSE
    [] x.t = "NaN" -> FALSE
    [] x.t = "number" -> x.v # 0
    [] x.t = "string" -> x.v # <<>>
    [] OTHER -> TRUE

\* a || b
Or(a, b) == IF Truthy(a) THEN a ELSE b

\* ToNumber, applied by `*`
ToNumber(x) ==
  CASE x.t = "number" -> x
    [] x.t = "null" -> Num(0)
    [] OTHER -> NaN

\* a + b, a * b, a > b and Math.min(a, b) on numbers: NaN propagates, and every
\* comparison with NaN is false
Plus(a, b) == IF a.t = "number" /\ b.t = "number" THEN Num(a.v + b.v) ELSE NaN
Times(a, b) ==
  LET x == ToNumber(a)
      y == ToNumber(b)
  IN IF x.t = "number" /\ y.t = "number" THEN Num(x.v * y.v) ELSE NaN
Gt(a, b) == a.t = "number" /\ b.t = "number" /\ a.v > b.v
MathMin(a, b) ==
  IF a.t = "number" /\ b.t = "number"
  THEN (IF a.v < b.v THEN a ELSE b)
  ELSE NaN

(***************************************************************************)
(* Token manager: getAppToken.                                             *)
(***************************************************************************)
\* (mutant) the cache starts with an expiry one hour ahead
EmptyCacheAhead == [token |-> Null, expiresAt |-> Num(3600 * MS_PER_SECOND)]

\* let cached = { token: null, expiresAt: 0 }
EmptyCache == [token |-> Null, expiresAt |-> Num(0)]

\* (mutant) the margin doubled
CacheFreshWideMargin(c, t) ==
  Truthy(c.token)
    /\ Gt(c.expiresAt, Plus(Num(t), Num(SAFETY_MARGIN_MS + SAFETY_MARGIN_MS)))

\* cached.token && cached.expiresAt > now + 5000
CacheFresh(c, t) ==
  Truthy(c.token) /\ Gt(c.expiresAt, Plus(Num(t), Num(SAFETY_MARGIN_MS)))

\* (mutant) a reply that finds the cache fresh again does not overwrite it
RefreshedFirstWins(data, t) ==
  IF CacheFresh(cached, now)
  THEN cached
  ELSE [token |-> data.access_token,
        expiresAt |-> Plus(Num(t), Times(data.expires_in, Num(MS_PER_SECOND)))]

\* (mutant) the expiry is only ever moved forward
RefreshedKeepsLaterExpiry(data, t) ==
  LET fresh == Plus(Num(t), Times(data.expires_in, Num(MS_PER_SECOND)))
  IN [token |-> data.access_token,
      expiresAt |-> IF Gt(cached.expiresAt, fresh) THEN cached.expiresAt ELSE fresh]

\* (mutant) the lifetime is counted from the time the reply is processed
RefreshedFromReplyTime(data, t) ==
  [token |-> data.access_token,
   expiresAt |-> Plus(Num(now), Times(data.expires_in, Num(MS_PER_SECOND)))]

\* (mutant) the lifetime is added in seconds
RefreshedNoScale(data, t) ==
  [token |-> data.access_token,
   expiresAt |-> Plus(Num(t), ToNumber(data.expires_in))]

\* cached.token = resp.data.access_token
\* cached.expiresAt = now + (resp.data.expires_in * 1000)
Refreshed(data, t) ==
  [token |-> data.access_token,
   expiresAt |-> Plus(Num(t), Times(data.expires_in, Num(MS_PER_SECOND)))]

(***************************************************************************)
(* Strings: sequences of one-character strings.                            *)
(***************************************************************************)
Whitespace == {" ", "\t"}
Digits == <<"0", "1", "2", "3", "4", "5", "6", "7", "8", "9">>
IsDigit(c) == \E i \in 1..10 : Digits[i] = c
DigitVal(c) == (CHOOSE i \in 1..10 : Digits[i] = c) - 1

\* String.prototype.trim
RECURSIVE TrimStart(_)
TrimStart(s) ==
  IF s # <<>> /\ Head(s) \in Whitespace THEN TrimStart(Tail(s)) ELSE s
RECURSIVE TrimEnd(_)
TrimEnd(s) ==
  IF s # <<>> /\ s[Len(s)] \in Whitespace
  THEN TrimEnd(SubSeq(s, 1, Len(s) - 1))
  ELSE s
Trim(s) == TrimEnd(TrimStart(s))

\* String.prototype.includes(c) for a one-character needle
Includes(s, c) == \E i \in 1..Len(s) : s[i] = c

\* the value of the longest run of decimal digits at the start of s
RECURSIVE ReadDigits(_, _)
ReadDigits(s, acc) ==
  IF s # <<>> /\ IsDigit(Head(s))
  THEN ReadDigits(Tail(s), acc * 10 + DigitVal(Head(s)))
  ELSE acc

\* parseInt(s, 10): leading whitespace is skipped, then an optional sign, then
\* the digits up to the first other character; NaN when there is no digit
ParseInt(s) ==
  LET u == TrimStart(s)
      signed == u # <<>> /\ Head(u) \in {"-", "+"}
      d == IF signed THEN Tail(u) ELSE u
  IN IF d = <<>> \/ ~IsDigit(Head(d))
     THEN NaN
     ELSE IF signed /\ Head(u) = "-"
          THEN Num(0 - ReadDigits(d, 0))
          ELSE Num(ReadDigits(d, 0))

\* encodeURIComponent on the characters the model uses: the unreserved
\* characters stay, every other character becomes its %XX escape
Unreserved ==
  {"a", "b", "c", "e", "i", "m", "t", "x", "0", "1", "2", "3", "4", "5",
   "6", "7", "8", "9", "-", "_", ".", "!", "~", "*", "'", "(", ")"}
PercentCode(c) ==
  CASE c \in Unreserved -> <<c>>
    [] c = " " -> <<"%", "2", "0">>
    [] c = "%" -> <<"%", "2", "5">>
    [] c = "&" -> <<"%", "2", "6">>
    [] c = "/" -> <<"%", "2", "F">>
    [] c = ":" -> <<"%", "3", "A">>
    [] c = "=" -> <<"%", "3", "D">>
    [] c = "?" -> <<"%", "3", "F">>
RECURSIVE EncodeURIComponent(_)
EncodeURIComponent(s) ==
  IF s = <<>> THEN <<>> ELSE PercentCode(Head(s)) \o EncodeURIComponent(Tail(s))

\* decodeURIComponent: %XX escapes become the characters they encode; the
\* result is the decoded string, or a URIError when an escape is cut short,
\* is not hexadecimal, or does not continue a well-formed UTF-8 sequence
HexUpper == <<"0", "1", "2", "3", "4", "5", "6", "7", "8", "9", "A", "B", "C", "D", "E", "F">>
HexLower == <<"0", "1", "2", "3", "4", "5", "6", "7", "8", "9", "a", "b", "c", "d", "e", "f">>
IsHex(c) == \E i \in 1..16 : HexUpper[i] = c \/ HexLower[i] = c
HexVal(c) == (CHOOSE i \in 1..16 : HexUpper[i] = c \/ HexLower[i] = c) - 1
\* s starts with a complete escape; the byte it denotes
EscapeAt(s) == Len(s) >= 3 /\ s[1] = "%" /\ IsHex(s[2]) /\ IsHex(s[3])
ByteAt(s) == 16 * HexVal(s[2]) + HexVal(s[3])
\* the ASCII characters the model uses, by code
AsciiChar(b) ==
  CASE b = 32 -> " "
    [] b = 37 -> "%"
    [] b = 38 -> "&"
    [] b = 47 -> "/"
    [] b = 58 -> ":"
    [] b = 61 -> "="
    [] b = 63 -> "?"
    [] b = 120 -> "x"
\* the character of a two-byte UTF-8 sequence, named by its code point
Utf8Char(b1, b2) == "U+" \o ToString((b1 - 192) * 64 + (b2 - 128))
URIError == [ok |-> FALSE, v |-> <<>>]
Decoded(s) == [ok |-> TRUE, v |-> s]
RECURSIVE DecodeURIComponent(_)
DecodeURIComponent(s) ==
  IF s = <<>> THEN Decoded(<<>>)
  ELSE IF Head(s) # "%"
  THEN LET rest == DecodeURIComponent(Tail(s))
       IN IF rest.ok THEN Decoded(<<Head(s)>> \o rest.v) ELSE URIError
  ELSE IF ~EscapeAt(s) THEN URIError
  ELSE LET b == ByteAt(s)
           after == SubSeq(s, 4, Len(s))
       IN IF b < 128
          THEN LET rest == DecodeURIComponent(after)
               IN IF rest.ok THEN Decoded(<<AsciiChar(b)>> \o rest.v) ELSE URIError
          ELSE IF b \in 194..223 /\ EscapeAt(after)
          THEN IF ByteAt(after) \in 128..191
               THEN LET rest == DecodeURIComponent(SubSeq(after, 4, Len(after)))
                    IN IF rest.ok
                       THEN Decoded(<<Utf8Char(b, ByteAt(after))>> \o rest.v)
                       ELSE URIError
               ELSE URIError
          \* a continuation byte or an invalid byte in the lead position, or a
          \* lead byte with nothing after it (three- and four-byte sequences
          \* are not among the inputs of the model)
          ELSE URIError

(***************************************************************************)
(* Affiliate URL builder.                                                  *)
(***************************************************************************)
\* process.env.EPN_CAMPAIGN_ID (a non-empty string, checked at startup)
CAMP_ID == <<"5", "&", "7">>

MKEVT == <<"1">>
MKCID == <<"1">>
TOOLID == <<"1", "0", "0", "0", "1">>

\* (mutant) the separator is always a question mark
BuildAffiliateUrlQuestionMark(itemWebUrl, customId) ==
  LET CAMPID == EncodeURIComponent(CAMP_ID)
      out == itemWebUrl \o <<"?">>
               \o <<"m", "k", "e", "v", "t", "=">> \o MKEVT
               \o <<"&", "m", "k", "c", "i", "d", "=">> \o MKCID
               \o <<"&", "c", "a", "m", "p", "i", "d", "=">> \o CAMPID
               \o <<"&", "t", "o", "o", "l", "i", "d", "=">> \o TOOLID
  IN IF Truthy(customId)
     THEN out \o <<"&", "c", "u", "s", "t", "o", "m", "i", "d", "=">>
              \o EncodeURIComponent(customId.v)
     ELSE out

\* buildAffiliateUrl(itemWebUrl, customId = null), itemWebUrl a string
BuildAffiliateUrl(itemWebUrl, customId) ==
  LET CAMPID == EncodeURIComponent(CAMP_ID)
      separator == IF Includes(itemWebUrl, "?") THEN <<"&">> ELSE <<"?">>
      out == itemWebUrl \o separator
               \o <<"m", "k", "e", "v", "t", "=">> \o MKEVT
               \o <<"&", "m", "k", "c", "i", "d", "=">> \o MKCID
               \o <<"&", "c", "a", "m", "p", "i", "d", "=">> \o CAMPID
               \o <<"&", "t", "o", "o", "l", "i", "d", "=">> \o TOOLID
  IN IF Truthy(customId)
     THEN out \o <<"&", "c", "u", "s", "t", "o", "m", "i", "d", "=">>
              \o EncodeURIComponent(customId.v)
     ELSE out

(***************************************************************************)
(* Search proxy: the pure parts of the /search handler.                    *)
(***************************************************************************)
\* (mutant) the query is not trimmed
QueryRejectedNoTrim(q) == IF ~Truthy(q) THEN TRUE ELSE Len(q.v) = 0

\* !q || String(q).trim().length === 0
QueryRejected(q) == IF ~Truthy(q) THEN TRUE ELSE Len(Trim(q.v)) = 0

\* Math.min(parseInt(req.query.limit || '25', 10), 100)
EffectiveLimit(limit) ==
  MathMin(ParseInt(Or(limit, Str(DEFAULT_LIMIT)).v), Num(MAX_LIMIT))

\* the callback of map throws a TypeError: `it` is null or undefined, or
\* it.itemWebUrl is truthy and has no includes method
ItemThrows(it) ==
  IF it.t \in {"null", "undefined"}
  THEN TRUE
  ELSE Truthy(it.itemWebUrl) /\ it.itemWebUrl.t # "string"

\* (mutant) the item id is passed on as customId
EnrichWithCustomId(it) ==
  [t |-> "object",
   itemId |-> it.itemId,
   title |-> it.title,
   price |-> it.price,
   image |-> it.image,
   itemWebUrl |-> it.itemWebUrl,
   affiliateUrl |-> IF Truthy(it.itemWebUrl)
                    THEN Str(BuildAffiliateUrl(it.itemWebUrl.v, it.itemId))
                    ELSE Null]

\* the callback of (body.itemSummaries || []).map
Enrich(it) ==
  [t |-> "object",
   itemId |-> it.itemId,
   title |-> it.title,
   price |-> it.price,
   image |-> it.image,
   itemWebUrl |-> it.itemWebUrl,
   affiliateUrl |-> IF Truthy(it.itemWebUrl)
                    THEN Str(BuildAffiliateUrl(it.itemWebUrl.v, Null))
                    ELSE Null]

\* const body = r.data || {} ; body.itemSummaries || []
ItemSummaries(data) ==
  LET body == Or(data, [t |-> "object", total |-> Undefined, itemSummaries |-> Undefined])
  IN IF Truthy(body.itemSummaries) THEN body.itemSummaries.v ELSE <<>>
UpstreamTotal(data) ==
  LET body == Or(data, [t |-> "object", total |-> Undefined, itemSummaries |-> Undefined])
  IN body.total

MapThrows(items) == \E i \in 1..Len(items) : ItemThrows(items[i])
Summaries(items) == [i \in 1..Len(items) |-> Enrich(items[i])]

\* res.json({ total: body.total || summaries.length, items: summaries })
SearchResult(data) ==
  LET summaries == Summaries(ItemSummaries(data))
  IN [status |-> STATUS_OK,
      total |-> Or(UpstreamTotal(data), Num(Len(summaries))),
      items |-> summaries]

\* res.status(400).json({ error: 'Missing q parameter' })
MissingQ == [status |-> STATUS_BAD_REQUEST, error |-> "Missing q parameter"]

\* (mutant) every failure is answered with status 500
SearchErrorAlways500(err) ==
  [status |-> STATUS_SERVER_ERROR,
   error |-> "search_error",
   detail |-> IF err.kind = "http" /\ Truthy(err.data) THEN err.data ELSE Str(err.message)]

\* the catch block: err.response is the upstream reply when there is one
\* const status = err.response?.status || 500
\* res.status(status).json({ error: 'search_error', detail: err.response?.data || err.message })
SearchError(err) ==
  [status |-> IF err.kind = "http" /\ err.status # 0 THEN err.status ELSE STATUS_SERVER_ERROR,
   error |-> "search_error",
   detail |-> IF err.kind = "http" /\ Truthy(err.data) THEN err.data ELSE Str(err.message)]

\* errors thrown inside the handler; the text of a message is kept as one symbol
TypeError == [kind |-> "none", message |-> <<"TypeError">>]

(***************************************************************************)
(* The upstream services, as the handlers see them.                        *)
(***************************************************************************)
\* axios rejects without err.response: a network error, or the 10000 ms timeout
NetworkError == [kind |-> "none", message |-> <<"timeout of 10000ms exceeded">>]
\* axios rejects with err.response: a reply whose status is not 2xx
HttpError(status, data) ==
  [kind |-> "http", status |-> status, data |-> data,
   message |-> <<"Request failed with status code">>]
ErrorPayload == [t |-> "object", errors |-> "upstream"]

\* the 2xx body of the authorization endpoint answering at time t with a token
\* of lifetime l seconds: in full, or lacking the access token or the lifetime
TokenBody(t, l, shape) ==
  [access_token |-> IF shape = "no_token"
                    THEN Undefined
                    ELSE AccessToken(t, t + l * MS_PER_SECOND),
   expires_in |-> IF shape = "no_lifetime" THEN Undefined ELSE Num(l)]

(***************************************************************************)
(* Request slots and their initial state.                                  *)
(***************************************************************************)
Reqs == 1..NumReqs

\* what a getAppToken invocation finds in the cache
Found(c, t) ==
  IF ~Truthy(c.token) THEN "absent"
  ELSE IF CacheFresh(c, t) THEN "fresh"
  ELSE IF Gt(c.expiresAt, Num(t)) THEN "margin"
  ELSE "expired"

NoInput == [q |-> Undefined, limit |-> Undefined]
NoCall ==
  [state |-> "none", now |-> 0, found |-> "absent", sent |-> 0,
   overlap |-> FALSE, life |-> Undefined, ret |-> Undefined]
NoReply == [kind |-> "nothing"]
NoBrowse == [sent |-> 0, limit |-> Undefined, bearer |-> Undefined]
NoOutcome == [kind |-> "nothing"]
NoRes == [status |-> 0]
NoGo == [raw |-> Undefined, res |-> NoRes]
NoAff == [called |-> FALSE, itemWebUrl |-> <<>>, customId |-> Null, out |-> <<>>]

Init ==
  /\ now = 0
  /\ cached = EmptyCache
  /\ pc = [r \in Reqs |-> "idle"]
  /\ input = [r \in Reqs |-> NoInput]
  /\ call = [r \in Reqs |-> NoCall]
  /\ authReply = [r \in Reqs |-> NoReply]
  /\ browse = [r \in Reqs |-> NoBrowse]
  /\ outcome = [r \in Reqs |-> NoOutcome]
  /\ res = [r \in Reqs |-> NoRes]
  /\ written = FALSE
  /\ lastProcessed = 0
  /\ go = NoGo
  /\ aff = NoAff

\* the slots whose getAppToken is suspended at `await axios.post`
Refreshing == {r \in Reqs : pc[r] = "awaitAuth"}

\* (mutant) the cached token is returned, and the request is posted all the same
HitCallStillPosts(c, t) ==
  [state |-> "returned", now |-> t, found |-> Found(c, t), sent |-> 1,
   overlap |-> FALSE, life |-> Undefined, ret |-> c.token]

\* getAppToken's frame when it returns the cached token at once
HitCall(c, t) ==
  [state |-> "returned", now |-> t, found |-> Found(c, t), sent |-> 0,
   overlap |-> FALSE, life |-> Undefined, ret |-> c.token]

\* getAppToken's frame when it has posted to the authorization endpoint:
\* `now` is captured before the request is sent
MissCall(c, t) ==
  [state |-> "waiting", now |-> t, found |-> Found(c, t), sent |-> 1,
   overlap |-> Refreshing # {}, life |-> Undefined, ret |-> Undefined]

\* axios.get(BROWSE_BASE, { params: { q, limit }, headers: { Authorization: Bearer token } })
BrowseRequest(sent, limit, token) ==
  [sent |-> sent + 1, limit |-> limit, bearer |-> token]

(***************************************************************************)
(* GET /search.                                                            *)
(***************************************************************************)
\* the query is missing or blank: 400, and the handler returns
RejectQuery(r, q, limit) ==
  /\ pc[r] = "idle"
  /\ QueryRejected(q)
  /\ pc' = [pc EXCEPT ![r] = "done"]
  /\ input' = [input EXCEPT ![r] = [q |-> q, limit |-> limit]]
  /\ res' = [res EXCEPT ![r] = MissingQ]
  /\ UNCHANGED <<go, aff, now, cached, call, authReply, browse, outcome, written, lastProcessed>>

\* getAppToken returns the cached token; the handler sends the search
SearchCacheHit(r, q, limit) ==
  /\ pc[r] = "idle"
  /\ ~QueryRejected(q)
  /\ CacheFresh(cached, now)
  /\ pc' = [pc EXCEPT ![r] = "awaitSearch"]
  /\ input' = [input EXCEPT ![r] = [q |-> q, limit |-> limit]]
  /\ call' = [call EXCEPT ![r] = HitCall(cached, now)]
  /\ browse' = [browse EXCEPT
       ![r] = BrowseRequest(browse[r].sent, EffectiveLimit(limit), call'[r].ret)]
  /\ UNCHANGED <<go, aff, now, cached, authReply, outcome, res, written, lastProcessed>>

\* getAppToken finds no fresh token: it posts to the authorization endpoint
\* and suspends
SearchCacheMiss(r, q, limit) ==
  /\ pc[r] = "idle"
  /\ ~QueryRejected(q)
  /\ ~CacheFresh(cached, now)
  /\ pc' = [pc EXCEPT ![r] = "awaitAuth"]
  /\ input' = [input EXCEPT ![r] = [q |-> q, limit |-> limit]]
  /\ call' = [c \in Reqs |->
       IF c = r THEN MissCall(cached, now)
       ELSE IF c \in Refreshing THEN [call[c] EXCEPT !.overlap = TRUE]
       ELSE call[c]]
  /\ UNCHANGED <<go, aff, now, cached, authReply, browse, outcome, res, written, lastProcessed>>

\* the authorization endpoint answers 2xx
AuthIssue(r, l, shape) ==
  /\ pc[r] = "awaitAuth"
  /\ authReply[r] = NoReply
  /\ authReply' = [authReply EXCEPT
       ![r] = [kind |-> "ok", data |-> TokenBody(now, l, shape)]]
  /\ UNCHANGED <<go, aff, now, cached, pc, input, call, browse, outcome, res, written, lastProcessed>>

\* the authorization request fails: a non-2xx reply, no reply, or the timeout
AuthFail(r, err) ==
  /\ pc[r] = "awaitAuth"
  /\ authReply[r] = NoReply
  /\ authReply' = [authReply EXCEPT ![r] = err]
  /\ UNCHANGED <<go, aff, now, cached, pc, input, call, browse, outcome, res, written, lastProcessed>>

\* getAppToken resumes with the 2xx reply: it writes the cache and returns
\* cached.token; the handler sends the search
AuthResolved(r) ==
  /\ pc[r] = "awaitAuth"
  /\ authReply[r].kind = "ok"
  /\ cached' = Refreshed(authReply[r].data, call[r].now)
  /\ call' = [call EXCEPT
       ![r].state = "returned",
       ![r].life = authReply[r].data.expires_in,
       ![r].ret = cached'.token]
  /\ pc' = [pc EXCEPT ![r] = "awaitSearch"]
  /\ browse' = [browse EXCEPT
       ![r] = BrowseRequest(browse[r].sent, EffectiveLimit(input[r].limit), call'[r].ret)]
  /\ authReply' = [authReply EXCEPT ![r] = NoReply]
  /\ written' = TRUE
  /\ lastProcessed' = r
  /\ UNCHANGED <<go, aff, now, input, outcome, res>>

\* getAppToken resumes with the rejection and throws; the handler's catch
\* block answers
AuthRejected(r) ==
  /\ pc[r] = "awaitAuth"
  /\ authReply[r].kind \in {"http", "none"}
  /\ call' = [call EXCEPT ![r].state = "threw"]
  /\ pc' = [pc EXCEPT ![r] = "done"]
  /\ outcome' = [outcome EXCEPT ![r] = authReply[r]]
  /\ res' = [res EXCEPT ![r] = SearchError(authReply[r])]
  /\ authReply' = [authReply EXCEPT ![r] = NoReply]
  /\ UNCHANGED <<go, aff, now, cached, input, browse, written, lastProcessed>>

\* (mutant) a TypeError thrown while the items are mapped is not caught
SearchResolvedUncaught(r, data) ==
  /\ pc[r] = "awaitSearch"
  /\ IF MapThrows(ItemSummaries(data))
     THEN /\ pc' = [pc EXCEPT ![r] = "crashed"]
          /\ outcome' = [outcome EXCEPT ![r] = TypeError]
          /\ UNCHANGED res
     ELSE /\ pc' = [pc EXCEPT ![r] = "done"]
          /\ outcome' = [outcome EXCEPT ![r] = [kind |-> "ok", data |-> data]]
          /\ res' = [res EXCEPT ![r] = SearchResult(data)]
  /\ UNCHANGED <<go, aff, now, cached, input, call, authReply, browse, written,
                 lastProcessed>>

\* the Browse API answers 2xx with `data`: the handler maps the items and
\* answers, or the mapping throws and the catch block answers
SearchResolved(r, data) ==
  /\ pc[r] = "awaitSearch"
  /\ pc' = [pc EXCEPT ![r] = "done"]
  /\ outcome' = [outcome EXCEPT ![r] =
       IF MapThrows(ItemSummaries(data)) THEN TypeError ELSE [kind |-> "ok", data |-> data]]
  /\ res' = [res EXCEPT ![r] =
       IF MapThrows(ItemSummaries(data)) THEN SearchError(TypeError) ELSE SearchResult(data)]
  /\ UNCHANGED <<go, aff, now, cached, input, call, authReply, browse, written, lastProcessed>>

\* (mutant) a failed Browse API request also throws the cached token away
SearchRejectedClearsCache(r, err) ==
  /\ pc[r] = "awaitSearch"
  /\ pc' = [pc EXCEPT ![r] = "done"]
  /\ outcome' = [outcome EXCEPT ![r] = err]
  /\ res' = [res EXCEPT ![r] = SearchError(err)]
  /\ cached' = EmptyCache
  /\ UNCHANGED <<go, aff, now, input, call, authReply, browse, written, lastProcessed>>

\* (mutant) a failed Browse API request is sent once more before the catch
\* block answers
SearchRejectedRetries(r, err) ==
  /\ pc[r] = "awaitSearch"
  /\ IF browse[r].sent < 2
     THEN /\ browse' = [browse EXCEPT ![r].sent = @ + 1]
          /\ UNCHANGED <<pc, outcome, res>>
     ELSE /\ pc' = [pc EXCEPT ![r] = "done"]
          /\ outcome' = [outcome EXCEPT ![r] = err]
          /\ res' = [res EXCEPT ![r] = SearchError(err)]
          /\ UNCHANGED browse
  /\ UNCHANGED <<go, aff, now, cached, input, call, authReply, written, lastProcessed>>

\* the Browse API request fails; the catch block answers
SearchRejected(r, err) ==
  /\ pc[r] = "awaitSearch"
  /\ pc' = [pc EXCEPT ![r] = "done"]
  /\ outcome' = [outcome EXCEPT ![r] = err]
  /\ res' = [res EXCEPT ![r] = SearchError(err)]
  /\ UNCHANGED <<go, aff, now, cached, input, call, authReply, browse, written, lastProcessed>>

(***************************************************************************)
(* GET /go.                                                                *)
(***************************************************************************)
\* res.status(400).send('Missing url'), res.status(400).send('Invalid url')
MissingUrl == [status |-> STATUS_BAD_REQUEST, body |-> "Missing url"]
InvalidUrl == [status |-> STATUS_BAD_REQUEST, body |-> "Invalid url"]
\* res.redirect(302, aff)
Redirect(target) == [status |-> STATUS_FOUND, location |-> target]

\* (mutant) the url is passed on without being decoded
GoResponseNoDecode(raw) ==
  IF ~Truthy(raw)
  THEN MissingUrl
  ELSE IF DecodeURIComponent(raw.v).ok
       THEN Redirect(BuildAffiliateUrl(raw.v, Null))
       ELSE InvalidUrl

\* the response of the /go handler to req.query.url = raw
GoResponse(raw) ==
  IF ~Truthy(raw)
  THEN MissingUrl
  ELSE LET decoded == DecodeURIComponent(raw.v)
       IN IF decoded.ok
          THEN Redirect(BuildAffiliateUrl(decoded.v, Null))
          ELSE InvalidUrl

\* the /go handler: it has no await, the whole handler is one step
Go(raw) ==
  /\ go' = [raw |-> raw, res |-> GoResponse(raw)]
  /\ UNCHANGED <<aff, now, cached, pc, input, call, authReply, browse, outcome, res,
                 written, lastProcessed>>

\* buildAffiliateUrl(itemWebUrl, customId) called on its own
BuildAffiliateUrlCall(itemWebUrl, customId) ==
  /\ aff' = [called |-> TRUE, itemWebUrl |-> itemWebUrl, customId |-> customId,
             out |-> BuildAffiliateUrl(itemWebUrl, customId)]
  /\ UNCHANGED <<go, now, cached, pc, input, call, authReply, browse, outcome, res,
                 written, lastProcessed>>

(***************************************************************************)
(* Environment.                                                            *)
(***************************************************************************)
\* time passes
Tick ==
  /\ now + TickMs <= MaxNow
  /\ now' = now + TickMs
  /\ UNCHANGED <<go, aff, cached, pc, input, call, authReply, browse, outcome, res, written,
                 lastProcessed>>

\* a finished request leaves; its slot serves the next request
Recycle(r) ==
  /\ pc[r] = "done"
  /\ pc' = [pc EXCEPT ![r] = "idle"]
  /\ input' = [input EXCEPT ![r] = NoInput]
  /\ call' = [call EXCEPT ![r] = NoCall]
  /\ browse' = [browse EXCEPT ![r] = NoBrowse]
  /\ outcome' = [outcome EXCEPT ![r] = NoOutcome]
  /\ res' = [res EXCEPT ![r] = NoRes]
  /\ lastProcessed' = IF lastProcessed = r THEN 0 ELSE lastProcessed
  /\ UNCHANGED <<go, aff, now, cached, authReply, written>>

(***************************************************************************)
(* Spec: concurrent searches against the token cache, with time passing.   *)
(***************************************************************************)
Queries == {Undefined, Str(<<"x">>)}
Replies == {<<5, "full">>, <<8, "full">>, <<8, "no_token">>, <<8, "no_lifetime">>}
WellFormedReplies == {b \in Replies : b[2] = "full"}
EmptyResult == [t |-> "object", total |-> Undefined, itemSummaries |-> Undefined]
AuthFailures == {NetworkError, HttpError(401, ErrorPayload)}
SearchFailures == {NetworkError}

Next ==
  \/ \E r \in Reqs, q \in Queries : RejectQuery(r, q, Undefined)
  \/ \E r \in Reqs, q \in Queries : SearchCacheHit(r, q, Undefined)
  \/ \E r \in Reqs, q \in Queries : SearchCacheMiss(r, q, Undefined)
  \/ \E r \in Reqs, b \in Replies : AuthIssue(r, b[1], b[2])
  \/ \E r \in Reqs, err \in AuthFailures : AuthFail(r, err)
  \/ \E r \in Reqs : AuthResolved(r)
  \/ \E r \in Reqs : AuthRejected(r)
  \/ \E r \in Reqs : SearchResolved(r, EmptyResult)
  \/ \E r \in Reqs, err \in SearchFailures : SearchRejected(r, err)
  \/ \E r \in Reqs : Recycle(r)
  \/ Tick

Spec == Init /\ [][Next]_vars

\* SpecWellFormed: the same, against an authorization endpoint whose 2xx
\* replies are all well formed
NextWellFormed ==
  \/ \E r \in Reqs, q \in Queries : RejectQuery(r, q, Undefined)
  \/ \E r \in Reqs, q \in Queries : SearchCacheHit(r, q, Undefined)
  \/ \E r \in Reqs, q \in Queries : SearchCacheMiss(r, q, Undefined)
  \/ \E r \in Reqs, b \in WellFormedReplies : AuthIssue(r, b[1], b[2])
  \/ \E r \in Reqs, err \in AuthFailures : AuthFail(r, err)
  \/ \E r \in Reqs : AuthResolved(r)
  \/ \E r \in Reqs : AuthRejected(r)
  \/ \E r \in Reqs : SearchResolved(r, EmptyResult)
  \/ \E r \in Reqs, err \in SearchFailures : SearchRejected(r, err)
  \/ \E r \in Reqs : Recycle(r)
  \/ Tick

SpecWellFormed == Init /\ [][NextWellFormed]_vars

(***************************************************************************)
(* SpecSearch: one search at a time, with the request parameters and the   *)
(* upstream replies the handler has to cope with.                          *)
(***************************************************************************)
SearchQueries ==
  {Undefined, Str(<<>>), Str(<<" ", " ">>), Str(<<" ", "\t">>), Str(<<" ", "x">>)}
SearchLimits ==
  {Undefined, Str(<<>>), Str(<<"5", "0", "0">>), Str(<<"1", "0", "0">>),
   Str(<<"2", "0">>), Str(<<"0">>), Str(<<"-", "3">>), Str(<<"a", "b", "c">>),
   Str(<<"7", ".", "5">>)}

Item(url) ==
  [t |-> "object", itemId |-> Str(<<"1">>), title |-> Str(<<"t">>),
   price |-> [t |-> "object", value |-> "9.99", currency |-> "USD"],
   image |-> Undefined, itemWebUrl |-> url]
ItemUrls ==
  {Undefined, Null, Str(<<>>), Str(<<"x", "/", "1">>),
   Str(<<"x", "/", "1", "?", "a", "=", "1">>), Num(5)}
UpstreamItems == {Item(u) : u \in ItemUrls} \cup {Null}
MaxItems == 2
ItemLists == UNION {[1..n -> UpstreamItems] : n \in 0..MaxItems}
SearchBodies ==
  {[t |-> "object", total |-> tot, itemSummaries |-> [t |-> "array", v |-> l]] :
     tot \in {Undefined, Num(0), Num(9)}, l \in ItemLists}
    \cup {EmptyResult, Null}
HttpErrors ==
  {HttpError(st, d) : st \in {401, 503}, d \in {ErrorPayload, Str(<<>>), Undefined}}

NextSearch ==
  \/ \E q \in SearchQueries, l \in SearchLimits : RejectQuery(1, q, l)
  \/ \E q \in SearchQueries, l \in SearchLimits : SearchCacheHit(1, q, l)
  \/ \E q \in SearchQueries, l \in SearchLimits : SearchCacheMiss(1, q, l)
  \/ \E b \in WellFormedReplies : AuthIssue(1, b[1], b[2])
  \/ \E err \in HttpErrors \cup {NetworkError} : AuthFail(1, err)
  \/ AuthResolved(1)
  \/ AuthRejected(1)
  \/ \E data \in SearchBodies : SearchResolved(1, data)
  \/ \E err \in HttpErrors \cup {NetworkError} : SearchRejected(1, err)
  \/ Recycle(1)

SpecSearch == Init /\ [][NextSearch]_vars

(***************************************************************************)
(* SpecRedirect: /go requests and buildAffiliateUrl calls, next to one     *)
(* search at a time.                                                       *)
(***************************************************************************)
\* req.query.url, as the query parser hands it to the handler
RawUrls ==
  {Undefined, Str(<<>>), Str(<<" ">>),
   Str(<<"x", "/", "1">>),
   Str(<<"x", "%", "2", "F", "1">>),
   Str(<<"x", "%", "2", "f", "1", "%", "3", "F", "a", "%", "3", "D", "1">>),
   Str(<<"x", "/", "1", "?", "a", "=", "1">>),
   Str(<<"x", "%", "2", "5", "2", "F", "1">>),
   Str(<<"x", "%", "C", "3", "%", "A", "9">>),
   Str(<<"%">>), Str(<<"x", "%", "2">>), Str(<<"x", "%", "x", "x">>),
   Str(<<"%", "F", "F">>), Str(<<"%", "C", "3">>), Str(<<"%", "C", "3", "%", "2", "0">>)}
ItemWebUrls ==
  {<<>>, <<"x", "/", "1">>, <<"x", "/", "1", "?", "a", "=", "1">>,
   <<"x", "/", "1", "?">>, <<"x", "?", "a", "?", "b">>, <<"x", " ", "1">>}
CustomIds ==
  {Undefined, Null, Str(<<>>), Str(<<"a", "b">>), Str(<<"a", " ", "b">>),
   Str(<<"a", "&", "b", "=", "c", "?">>)}

NextRedirect ==
  \/ \E raw \in RawUrls : Go(raw)
  \/ \E u \in ItemWebUrls, c \in CustomIds : BuildAffiliateUrlCall(u, c)
  \/ \E q \in Queries : RejectQuery(1, q, Undefined)
  \/ \E q \in Queries : SearchCacheHit(1, q, Undefined)
  \/ \E q \in Queries : SearchCacheMiss(1, q, Undefined)
  \/ \E b \in Replies : AuthIssue(1, b[1], b[2])
  \/ \E err \in AuthFailures : AuthFail(1, err)
  \/ AuthResolved(1)
  \/ AuthRejected(1)
  \/ SearchResolved(1, EmptyResult)
  \/ \E err \in SearchFailures : SearchRejected(1, err)
  \/ Recycle(1)

SpecRedirect == Init /\ [][NextRedirect]_vars

(***************************************************************************)
(* SpecLive: concurrent searches whose upstream calls all come to an end   *)
(* (a reply, a failure, or the 10 s timeout of axios), and whose handlers  *)
(* are resumed by the event loop once their awaited call has ended.        *)
(***************************************************************************)
LiveBodies ==
  {EmptyResult, Null}
    \cup {[t |-> "object", total |-> Undefined, itemSummaries |-> [t |-> "array", v |-> <<it>>]] :
            it \in {Item(Str(<<"x", "/", "1">>)), Item(Num(5)), Null}}
LiveFailures == {NetworkError, HttpError(503, ErrorPayload)}

\* the authorization endpoint ends the call of slot r
AuthEnds(r) ==
  \/ \E b \in Replies : AuthIssue(r, b[1], b[2])
  \/ \E err \in AuthFailures : AuthFail(r, err)
\* the Browse API ends the call of slot r, and the handler resumes
SearchEnds(r) ==
  \/ \E data \in LiveBodies : SearchResolved(r, data)
  \/ \E err \in LiveFailures : SearchRejected(r, err)

NextLive ==
  \/ \E r \in Reqs, q \in Queries : RejectQuery(r, q, Undefined)
  \/ \E r \in Reqs, q \in Queries : SearchCacheHit(r, q, Undefined)
  \/ \E r \in Reqs, q \in Queries : SearchCacheMiss(r, q, Undefined)
  \/ \E r \in Reqs : AuthEnds(r)
  \/ \E r \in Reqs : AuthResolved(r)
  \/ \E r \in Reqs : AuthRejected(r)
  \/ \E r \in Reqs : SearchEnds(r)
  \/ \E r \in Reqs : Recycle(r)

Fairness ==
  \A r \in Reqs :
    /\ WF_vars(AuthEnds(r))
    /\ WF_vars(AuthResolved(r))
    /\ WF_vars(AuthRejected(r))
    /\ WF_vars(SearchEnds(r))

SpecLive == Init /\ [][NextLive]_vars /\ Fairness

(***************************************************************************)
(* Properties.                                                             *)
(***************************************************************************)
\* the cache holds a token string; its expiry is a number later than t
HoldsToken(c) == c.token.t = "token"
ExpiryAfter(c, t) == c.expiresAt.t = "number" /\ c.expiresAt.v > t

\* in this step the handler of slot r calls getAppToken
Invoked(r) == call[r].state = "none" /\ call'[r].state # "none"
\* in this step the getAppToken of slot r resumes from `await axios.post`
Resumed(r) == pc[r] = "awaitAuth" /\ pc'[r] # "awaitAuth"
\* the getAppToken of slot r has finished, and overlapped no other refresh
Finished(r) == call[r].state \in {"returned", "threw"} /\ ~call[r].overlap

\* the credential exchange failed: no 2xx reply, or a 2xx body that lacks the
\* access token or the lifetime
ExchangeFailed(reply) ==
  IF reply.kind = "ok"
  THEN ~(reply.data.access_token.t = "token" /\ reply.data.expires_in.t = "number")
  ELSE TRUE

\* C1: whenever getAppToken is called at time `now` while the cache holds a
\* token whose expiry is more than 5000 ms after `now`, it returns exactly the
\* cached token, sends no request to the authorization endpoint and leaves
\* the cached token and expiry unchanged.
C1_FreshTokenReturned ==
  [][\A r \in Reqs :
       (Invoked(r) /\ HoldsToken(cached) /\ ExpiryAfter(cached, now + 5000))
         => /\ call'[r].state = "returned"
            /\ call'[r].ret = cached.token
            /\ call'[r].sent = 0
            /\ pc'[r] # "awaitAuth"
            /\ authReply'[r] = NoReply
            /\ cached' = cached]_vars

\* a call was answered from the cache, which still holds the token
C1_Witness ==
  \E r \in Reqs :
    /\ call[r].state = "returned"
    /\ call[r].found = "fresh"
    /\ call[r].sent = 0
    /\ call[r].ret.t = "token"
    /\ call[r].ret = cached.token

\* C2: when the credential exchange fails (network error or timeout, non-2xx
\* reply, or a 2xx body lacking the access token or the lifetime), getAppToken
\* throws to its caller instead of returning a token, and the cached token and
\* expiry are what they were.
C2_FailureLeavesCache ==
  [][\A r \in Reqs :
       (Resumed(r) /\ ExchangeFailed(authReply[r]))
         => /\ call'[r].state = "threw"
            /\ cached' = cached]_vars

\* C3 as stated: a call made within the safety margin (5 seconds) before the
\* cached token's expiry, after an earlier such call, returns the cached token
\* and sends no request to the authorization endpoint.
C3_WithinMarginOriginal ==
  [][\A a, b \in Reqs :
       (/\ a # b
        /\ Finished(a)
        /\ call[a].found = "margin"
        /\ Invoked(b)
        /\ HoldsToken(cached)
        /\ ExpiryAfter(cached, now)
        /\ ~ExpiryAfter(cached, now + 5000))
         => /\ call'[b].ret = cached.token
            /\ call'[b].sent = 0]_vars

\* C3 amended: two successive calls made while the cached token's expiry is
\* more than the safety margin (5 seconds) away return the identical cached
\* token value, and neither sends a request to the authorization endpoint.
C3_BeforeMarginSameToken ==
  [][\A a, b \in Reqs :
       (/\ a # b
        /\ Finished(a)
        /\ call[a].found = "fresh"
        /\ call[a].ret = cached.token
        /\ Invoked(b)
        /\ HoldsToken(cached)
        /\ ExpiryAfter(cached, now + 5000))
         => /\ call'[b].state = "returned"
            /\ call'[b].ret = call[a].ret
            /\ call[a].sent = 0
            /\ call'[b].sent = 0
            /\ cached' = cached]_vars

\* two calls were both answered from the cache with the token it holds
C3_Witness ==
  \E a, b \in Reqs :
    /\ a # b
    /\ call[a].state = "returned" /\ call[a].found = "fresh" /\ call[a].sent = 0
    /\ call[b].state = "returned" /\ call[b].found = "fresh" /\ call[b].sent = 0
    /\ call[a].ret.t = "token"
    /\ call[a].ret = call[b].ret
    /\ call[a].ret = cached.token

\* C4: a getAppToken call that overlaps no other, made when the cache is
\* absent or expired, sends exactly one request to the authorization
\* endpoint; when the reply is a well-formed 2xx, the call stores the returned
\* token, sets the cached expiry to (now captured by the call) + lifetime *
\* 1000 ms, and returns the token it stored.
C4_RefreshStoresReply ==
  [][\A r \in Reqs :
       (/\ Resumed(r)
        /\ call[r].found \in {"absent", "expired"}
        /\ ~call[r].overlap
        /\ ~ExchangeFailed(authReply[r]))
         => /\ call[r].sent = 1
            /\ call'[r].sent = 1
            /\ cached'.token = authReply[r].data.access_token
            /\ cached'.expiresAt
                 = Num(call[r].now + authReply[r].data.expires_in.v * 1000)
            /\ call'[r].state = "returned"
            /\ call'[r].ret = authReply[r].data.access_token]_vars

\* a call that found the cached token expired has refreshed it, some time
\* after it was made
C4_Witness ==
  \E r \in Reqs :
    /\ call[r].state = "returned"
    /\ call[r].found = "expired"
    /\ ~call[r].overlap
    /\ call[r].sent = 1
    /\ call[r].ret.t = "token"
    /\ call[r].life.t = "number"
    /\ cached.token = call[r].ret
    /\ cached.expiresAt = Num(call[r].now + call[r].life.v * 1000)
    /\ call[r].now < now

C6_OverlapOriginal ==
  [][\A r \in Reqs :
       (/\ Resumed(r)
        /\ call[r].overlap
        /\ call[r].found \in {"absent", "expired"}
        /\ ~ExchangeFailed(authReply[r]))
         => /\ call[r].sent = 1
            /\ call'[r].state = "returned"
            /\ call'[r].ret = authReply[r].data.access_token
            /\ call'[r].ret.exp > now
            /\ cached'.token = authReply[r].data.access_token
            /\ cached'.expiresAt
                 = Num(call[r].now + authReply[r].data.expires_in.v * 1000)]_vars

\* C6 amended: each of the overlapping calls made while the cache is absent or
\* expired sends its own request; when its exchange succeeds it returns the
\* token of its own reply (which upstream may already have expired, when the
\* lifetime granted is no longer than the exchange took); and the cache always
\* holds the token and expiry written for the 2xx reply processed last.
C6_OverlapLastWriterWins ==
  /\ [][\A r \in Reqs :
          (/\ Resumed(r)
           /\ call[r].overlap
           /\ call[r].found \in {"absent", "expired"}
           /\ ~ExchangeFailed(authReply[r]))
            => /\ call[r].sent = 1
               /\ call'[r].state = "returned"
               /\ call'[r].ret = authReply[r].data.access_token
               /\ cached'.token = authReply[r].data.access_token
               /\ cached'.expiresAt
                    = Num(call[r].now + authReply[r].data.expires_in.v * 1000)]_vars
  /\ [](lastProcessed # 0 =>
          /\ cached.token = call[lastProcessed].ret
          /\ cached.expiresAt
               = Plus(Num(call[lastProcessed].now),
                      Times(call[lastProcessed].life, Num(1000))))

\* two overlapping calls have both refreshed, with different tokens; the
\* cache holds the one processed last
C6_Witness ==
  \E a, b \in Reqs :
    /\ a # b
    /\ call[a].overlap /\ call[a].state = "returned" /\ call[a].sent = 1
    /\ call[b].overlap /\ call[b].state = "returned" /\ call[b].sent = 1
    /\ call[a].found \in {"absent", "expired"}
    /\ call[b].found \in {"absent", "expired"}
    /\ call[a].ret.t = "token" /\ call[b].ret.t = "token"
    /\ call[a].life.t = "number" /\ call[b].life.t = "number"
    /\ call[a].ret # call[b].ret
    /\ lastProcessed = b
    /\ cached.token = call[b].ret

\* the query is missing, empty or only whitespace
BlankQuery(q) ==
  IF q.t = "string"
  THEN \A i \in 1..Len(q.v) : q.v[i] \in {" ", "\t"}
  ELSE q.t = "undefined"

\* C7: a search whose query is missing, empty or only whitespace is answered
\* 400 before any upstream call: no authorization request, no search request,
\* and no change to the token cache.
C7_BlankQueryRejected ==
  [][\A r \in Reqs :
       (pc[r] = "idle" /\ pc'[r] # "idle" /\ BlankQuery(input'[r].q))
         => /\ pc'[r] = "done"
            /\ res'[r].status = 400
            /\ res'[r].error = "Missing q parameter"
            /\ call'[r].sent = 0
            /\ authReply'[r] = NoReply
            /\ browse'[r].sent = 0
            /\ cached' = cached]_vars

\* a whitespace query was answered 400 while the cache held a token
C7_Witness ==
  \E r \in Reqs :
    /\ pc[r] = "done"
    /\ input[r].q = Str(<<" ", "\t">>)
    /\ res[r].status = 400
    /\ browse[r].sent = 0
    /\ HoldsToken(cached)

\* C8: the limit of every search sent upstream is 25 when the caller gave no
\* limit, and otherwise a whole number that is at least 1 and at most 100.
C8_LimitClamped ==
  \A r \in Reqs :
    browse[r].sent > 0 =>
      IF ~Truthy(input[r].limit)
      THEN browse[r].limit = Num(25)
      ELSE /\ browse[r].limit.t = "number"
           /\ browse[r].limit.v >= 1
           /\ browse[r].limit.v <= 100

\* the upstream payload of a failure, when there is one
HasPayload(err) ==
  IF err.kind = "http"
  THEN err.data.t # "undefined" /\ err.data # Str(<<>>)
  ELSE FALSE

\* C9: when an upstream call made for a search fails (the token exchange or
\* the search call is rejected), the response carries the upstream status when
\* there is one and 500 otherwise, the error kind "search_error", and as detail
\* the upstream payload when there is one.
C9_UpstreamFailureAnswered ==
  \A r \in Reqs :
    (pc[r] = "done" /\ outcome[r].kind \in {"http", "none"} /\ outcome[r] # TypeError)
      => /\ res[r].status = (IF outcome[r].kind = "http" THEN outcome[r].status ELSE 500)
         /\ res[r].error = "search_error"
         /\ IF HasPayload(outcome[r])
            THEN res[r].detail = outcome[r].data
            ELSE res[r].detail = Str(outcome[r].message)

\* a search call that upstream answered 503 with a payload was answered 503
C9_Witness ==
  \E r \in Reqs :
    /\ pc[r] = "done"
    /\ call[r].state = "returned"
    /\ browse[r].sent = 1
    /\ outcome[r] = HttpError(503, ErrorPayload)
    /\ res[r].status = 503
    /\ res[r].detail = ErrorPayload

\* the item has no itemWebUrl: it is missing, null or the empty string
NoWebUrl(it) == it.itemWebUrl.t \in {"undefined", "null"} \/ it.itemWebUrl = Str(<<>>)

\* the list of items in the upstream reply
UpstreamList(data) ==
  IF data.t = "object"
  THEN (IF data.itemSummaries.t = "array" THEN data.itemSummaries.v ELSE <<>>)
  ELSE <<>>

\* C10: in a successful search response the items are the upstream items in
\* the same number and order; each copies itemId, title, price, image and
\* itemWebUrl unchanged, and its affiliateUrl is null exactly when the item
\* has no itemWebUrl and is buildAffiliateUrl(itemWebUrl) otherwise.
C10_ItemsEnriched ==
  \A r \in Reqs :
    (pc[r] = "done" /\ outcome[r].kind = "ok")
      => LET up == UpstreamList(outcome[r].data)
             items == res[r].items
         IN /\ res[r].status = 200
            /\ Len(items) = Len(up)
            /\ \A i \in 1..Len(up) :
                 /\ items[i].itemId = up[i].itemId
                 /\ items[i].title = up[i].title
                 /\ items[i].price = up[i].price
                 /\ items[i].image = up[i].image
                 /\ items[i].itemWebUrl = up[i].itemWebUrl
                 /\ (items[i].affiliateUrl = Null) <=> NoWebUrl(up[i])
                 /\ ~NoWebUrl(up[i]) =>
                      items[i].affiliateUrl
                        = Str(BuildAffiliateUrl(up[i].itemWebUrl.v, Null))

\* a search returned two items, the first without a URL and the second with
\* one that has a query string
C10_Witness ==
  \E r \in Reqs :
    /\ pc[r] = "done"
    /\ outcome[r].kind = "ok"
    /\ Len(res[r].items) = 2
    /\ res[r].items[1].itemWebUrl = Null
    /\ res[r].items[1].affiliateUrl = Null
    /\ res[r].items[2].itemWebUrl = Str(<<"x", "/", "1", "?", "a", "=", "1">>)
    /\ res[r].items[2].affiliateUrl.t = "string"

(***************************************************************************)
(* C11: the total of a successful search is the total upstream reported    *)
(* whenever it reported one, a reported 0 included, and is the number of   *)
(* returned items only when upstream reported no total.                    *)
(***************************************************************************)
\* upstream reported a total in the body of its 2xx reply
TotalReported(data) ==
  IF data.t = "object" THEN data.total.t = "number" ELSE FALSE

C11_TotalReported ==
  \A r \in Reqs :
    (outcome[r].kind = "ok" /\ res[r].status = STATUS_OK) =>
      res[r].total = IF TotalReported(outcome[r].data)
                     THEN outcome[r].data.total
                     ELSE Num(Len(res[r].items))

(***************************************************************************)
(* C12: for every itemUrl and optional customId, buildAffiliateUrl returns *)
(* itemUrl, a separator, then mkevt=1, mkcid=1, campid=<encoded campaign   *)
(* id>, toolid=10001 in that order joined by '&', then &customid=<encoded  *)
(* customId> only when a customId is given; the separator is '?' when      *)
(* itemUrl has no query string (the output then holds exactly one '?')     *)
(* and '&' when it has one.                                                *)
(***************************************************************************)
CountOf(s, c) == Cardinality({i \in 1..Len(s) : s[i] = c})
\* the parameters, written out for the campaign id 5&7
AffiliateParams ==
  <<"m", "k", "e", "v", "t", "=", "1", "&", "m", "k", "c", "i", "d", "=", "1", "&",
    "c", "a", "m", "p", "i", "d", "=", "5", "%", "2", "6", "7", "&",
    "t", "o", "o", "l", "i", "d", "=", "1", "0", "0", "0", "1">>
\* a customId is given: a non-empty string
CustomIdGiven(c) == IF c.t = "string" THEN c.v # <<>> ELSE FALSE
\* the percent-encoded forms of the custom ids, written out
CustomIdEscaped(s) ==
  CASE s = <<"a", "b">> -> <<"a", "b">>
    [] s = <<"a", " ", "b">> -> <<"a", "%", "2", "0", "b">>
    [] s = <<"a", "&", "b", "=", "c", "?">> ->
         <<"a", "%", "2", "6", "b", "%", "3", "D", "c", "%", "3", "F">>

C12_AffiliateUrlShape ==
  aff.called =>
    LET u == aff.itemWebUrl
        out == aff.out
        n == Len(u)
        base == n + 1 + Len(AffiliateParams)
    IN /\ Len(out) >= base
       /\ SubSeq(out, 1, n) = u
       /\ out[n + 1] = IF CountOf(u, "?") = 0 THEN "?" ELSE "&"
       /\ SubSeq(out, n + 2, base) = AffiliateParams
       /\ IF CustomIdGiven(aff.customId)
          THEN SubSeq(out, base + 1, Len(out)) =
                 <<"&", "c", "u", "s", "t", "o", "m", "i", "d", "=">>
                   \o CustomIdEscaped(aff.customId.v)
          ELSE Len(out) = base
       /\ (CountOf(u, "?") = 0 => CountOf(out, "?") = 1)

\* a URL without a query string was built with a customId that needs escaping
C12_Witness ==
  /\ aff.called
  /\ aff.itemWebUrl = <<"x", "/", "1">>
  /\ aff.customId = Str(<<"a", "&", "b", "=", "c", "?">>)
  /\ CountOf(aff.out, "?") = 1

(***************************************************************************)
(* C13: GET /go answers 400 and redirects nowhere when the url parameter   *)
(* is missing or cannot be percent-decoded; for every decodable url it     *)
(* answers 302 with the target buildAffiliateUrl(decoded url), no customId.*)
(***************************************************************************)
\* the url parameter is missing: not in the query, or empty
UrlMissing(raw) == raw.t = "undefined" \/ raw = Str(<<>>)
\* the urls of the model that cannot be percent-decoded, written out
Undecodable ==
  {<<"%">>, <<"x", "%", "2">>, <<"x", "%", "x", "x">>, <<"%", "F", "F">>,
   <<"%", "C", "3">>, <<"%", "C", "3", "%", "2", "0">>}
\* the decoded forms of the other urls, written out
DecodedForm(s) ==
  CASE s = <<" ">> -> <<" ">>
    [] s = <<"x", "/", "1">> -> <<"x", "/", "1">>
    [] s = <<"x", "%", "2", "F", "1">> -> <<"x", "/", "1">>
    [] s = <<"x", "%", "2", "f", "1", "%", "3", "F", "a", "%", "3", "D", "1">> ->
         <<"x", "/", "1", "?", "a", "=", "1">>
    [] s = <<"x", "/", "1", "?", "a", "=", "1">> -> <<"x", "/", "1", "?", "a", "=", "1">>
    [] s = <<"x", "%", "2", "5", "2", "F", "1">> -> <<"x", "%", "2", "F", "1">>
    [] s = <<"x", "%", "C", "3", "%", "A", "9">> -> <<"x", "U+233">>

C13_RedirectOrReject ==
  go.res # NoRes =>
    IF UrlMissing(go.raw)
    THEN go.res.status = STATUS_BAD_REQUEST
    ELSE IF go.raw.v \in Undecodable
    THEN go.res.status = STATUS_BAD_REQUEST
    ELSE go.res = [status |-> STATUS_FOUND,
                   location |-> BuildAffiliateUrl(DecodedForm(go.raw.v), Null)]

\* an encoded url with a query string was decoded and redirected to
C13_Witness ==
  /\ go.raw = Str(<<"x", "%", "2", "f", "1", "%", "3", "F", "a", "%", "3", "D", "1">>)
  /\ go.res.status = STATUS_FOUND
  /\ SubSeq(go.res.location, 1, 8) = <<"x", "/", "1", "?", "a", "=", "1", "&">>

(***************************************************************************)
(* C14: within a search request the upstream search call is issued only    *)
(* after the request's token acquisition has completed successfully, and   *)
(* it carries the token the acquisition returned as bearer credential; if  *)
(* the acquisition fails, no upstream search call is made for the request  *)
(* and the request ends with the search-failure response.                  *)
(***************************************************************************)
\* the token acquisition of slot r failed: the exchange was rejected, or its
\* 2xx body lacked the access token or the lifetime
AcquisitionFailed(r) ==
  \/ call[r].state = "threw"
  \/ /\ call[r].state = "returned"
     /\ call[r].sent = 1
     /\ ~(call[r].ret.t = "token" /\ call[r].life.t = "number")

C14_SearchAfterToken ==
  \A r \in Reqs :
    /\ browse[r].sent > 0 =>
         (call[r].state = "returned" /\ browse[r].bearer = call[r].ret)
    /\ AcquisitionFailed(r) =>
         /\ browse[r].sent = 0
         /\ pc[r] = "done"
         /\ res[r] = SearchError(outcome[r])

(***************************************************************************)
(* C15: no upstream call is retried.  In every interleaving a search       *)
(* request causes at most one authorization request and at most one        *)
(* search request, and a call that fails or times out fails the request    *)
(* it was made for.                                                        *)
(***************************************************************************)
\* the upstream call that ended the try block of slot r was rejected
CallRejected(r) == outcome[r].kind \in {"http", "none"} /\ outcome[r] # TypeError

C15_NoRetry ==
  \A r \in Reqs :
    /\ call[r].sent <= 1
    /\ browse[r].sent <= 1
    /\ call[r].state = "threw" =>
         (browse[r].sent = 0 /\ CallRejected(r))
    /\ CallRejected(r) =>
         /\ pc[r] = "done"
         /\ res[r] = SearchError(outcome[r])
         /\ res[r].status >= STATUS_BAD_REQUEST

\* a request refreshed the token, sent the search, and the search timed out
C15_Witness ==
  \E r \in Reqs :
    /\ call[r].sent = 1
    /\ browse[r].sent = 1
    /\ outcome[r] = NetworkError
    /\ pc[r] = "done"

(***************************************************************************)
(* C16: the token cache is changed only by a refresh inside getAppToken.   *)
(* A /go request, a search rejected for its blank query, a getAppToken     *)
(* that returns the cached token and a failed upstream search call leave   *)
(* the cached token and expiry as they were, and a /go request sends no    *)
(* upstream request at all.                                                *)
(***************************************************************************)
\* in this step the getAppToken of slot r resumes with a 2xx reply and
\* writes the cache
RefreshWrites(r) ==
  /\ pc[r] = "awaitAuth"
  /\ authReply[r].kind = "ok"
  /\ call'[r].state = "returned"
\* in this step a /go request is handled
GoHandled == go' # go
\* in this step the search of slot r is rejected for its blank query
QueryRefused(r) == res[r] = NoRes /\ res'[r] = MissingQ
\* in this step the getAppToken of slot r returns the cached token
CacheHit(r) == Invoked(r) /\ call'[r].sent = 0
\* in this step the upstream search call of slot r fails
SearchFailed(r) == pc[r] = "awaitSearch" /\ outcome'[r].kind \in {"http", "none"}

C16_CacheFrame ==
  [][/\ cached' # cached => \E r \in Reqs : RefreshWrites(r)
     /\ GoHandled => UNCHANGED <<cached, call, authReply, browse>>
     /\ \A r \in Reqs :
          (QueryRefused(r) \/ CacheHit(r) \/ SearchFailed(r)) => cached' = cached]_vars

\* with a token in the cache, a /go request was redirected, and a search that
\* was served from the cache has failed upstream
C16_Witness ==
  /\ HoldsToken(cached)
  /\ go.res.status = STATUS_FOUND
  /\ call[1].state = "returned"
  /\ call[1].sent = 0
  /\ outcome[1] = NetworkError

(***************************************************************************)
(* C17: every search request eventually receives exactly one HTTP          *)
(* response (the result payload, a 400, or a structured error), provided   *)
(* every upstream call it makes eventually succeeds, fails or times out;   *)
(* no upstream failure and no malformed upstream item leaves a request     *)
(* unanswered or ends the process.                                         *)
(***************************************************************************)
\* the handler of slot r is suspended at an await
Pending(r) == pc[r] \in {"awaitAuth", "awaitSearch"}
\* the response of slot r is one of the three kinds
Answered(r) ==
  \/ res[r] = MissingQ
  \/ res[r].status = STATUS_OK /\ outcome[r].kind = "ok"
  \/ res[r] = SearchError(outcome[r]) /\ outcome[r].kind \in {"http", "none"}

C17_EveryRequestAnswered ==
  /\ \A r \in Reqs : Pending(r) ~> (pc[r] = "done")
  /\ [](\A r \in Reqs :
          /\ pc[r] \in {"idle", "awaitAuth", "awaitSearch", "done"}
          /\ IF pc[r] = "done" THEN Answered(r) ELSE res[r] = NoRes)
  /\ [][\A r \in Reqs : (res[r] # NoRes /\ res'[r] # res[r]) => pc'[r] = "idle"]_vars

\* a malformed upstream item made the mapping throw, and the request was
\* answered with the structured error
C17_Witness ==
  \E r \in Reqs :
    /\ pc[r] = "done"
    /\ outcome[r] = TypeError
    /\ res[r].status = STATUS_SERVER_ERROR

(***************************************************************************)
(* C18: in every reachable state, under any interleaving of overlapping    *)
(* refreshes, the cached token and the cached expiry come from the same    *)
(* authorization response: the two are written in one step, and no handler *)
(* sees the token of one refresh with the expiry of another.               *)
(***************************************************************************)
\* the times at which a handler can have read Date.now()
CaptureTimes == {t \in 0..MaxNow : t % TickMs = 0}
\* the lifetime upstream granted to a token
Lifetime(tok) == tok.exp - tok.iat
\* the expiry line 60 computes from a reply and the time captured at line 45
ExpiryFrom(data, captured) ==
  IF data.expires_in.t = "number"
  THEN Num(captured + data.expires_in.v * MS_PER_SECOND)
  ELSE NaN

C18_TokenAndExpiryTogether ==
  /\ [](IF written
        THEN (HoldsToken(cached) /\ cached.expiresAt.t = "number") =>
               /\ cached.expiresAt.v - Lifetime(cached.token) \in CaptureTimes
               /\ cached.expiresAt.v - Lifetime(cached.token) <= cached.token.iat
        ELSE cached.token = Null /\ cached.expiresAt = Num(0))
  /\ [][cached' # cached =>
          \E r \in Reqs :
            /\ RefreshWrites(r)
            /\ cached'.token = authReply[r].data.access_token
            /\ cached'.expiresAt = ExpiryFrom(authReply[r].data, call[r].now)]_vars

\* two refreshes overlapped, upstream granted them different lifetimes, and
\* both replies have been processed
C18_Witness ==
  \E r1, r2 \in Reqs :
    /\ r1 # r2
    /\ call[r1].overlap /\ call[r2].overlap
    /\ call[r1].state = "returned" /\ call[r2].state = "returned"
    /\ call[r1].life = Num(8) /\ call[r2].life = Num(5)
    /\ lastProcessed = r2
    /\ cached.token = call[r2].ret

(***************************************************************************)
(* C19: with upstream expiring a token at its issue time plus its          *)
(* lifetime, getAppToken never returns from the cache a token that         *)
(* upstream has already expired or that has 5 seconds or less of upstream  *)
(* lifetime left, in any interleaving: the recorded expiry is computed     *)
(* from the time captured before the request was sent, which is never      *)
(* later than the issue time.                                              *)
(***************************************************************************)
C19_CachedTokenAliveUpstream ==
  /\ []((HoldsToken(cached) /\ cached.expiresAt.t = "number") =>
          cached.expiresAt.v <= cached.token.exp)
  /\ [][\A r \in Reqs :
          CacheHit(r) =>
            /\ call'[r].ret.t = "token"
            /\ call'[r].ret.exp > now + SAFETY_MARGIN_MS]_vars

\* a token issued after the request for it was sent is returned from the
\* cache at a later time
C19_Witness ==
  \E r \in Reqs :
    /\ call[r].state = "returned"
    /\ call[r].sent = 0
    /\ call[r].now > 0
    /\ call[r].ret.t = "token"
    /\ call[r].ret.iat > 0
    /\ cached.expiresAt.v < call[r].ret.exp

====
